---- MODULE Spec2Model ----
(***************************************************************************)
(* A model of the Engram Go SDK: the container codec (Encode, Decode,      *)
(* ReadFile, WriteFile, VerifyIntegrity), the streaming reader             *)
(* (NewStreamReader, StreamReader.Next) and the in-memory index            *)
(* (NewMemoryTree, the lookups of MemoryTree, MemoryTree.Search).          *)
(*                                                                         *)
(* The wire is a sequence of MessagePack items: one element of the         *)
(* sequence is one item head (a map or array head with its length) or one  *)
(* scalar (a string, an integer, a float32, nil).  The six magic bytes are *)
(* six elements of their own.  SHA-256 is modelled as a collision-free     *)
(* digest of the payload items.                                            *)
(***************************************************************************)
EXTENDS Integers, Sequences, FiniteSets, TLC

VARIABLES
    file,      \* the caller's EngramFile (header + nodes) handed to Encode
    now,       \* the wall clock, in seconds
    data,      \* the encoded bytes: the buffer in hand / the file on disk
    onDisk,    \* whether the file at the path can be read
    origin,    \* how data came about: "none" | "encoded" | "altered" | "upper"
    encIn,     \* the EngramFile the last Encode was given
    encAt,     \* the clock value the last Encode read
    born,      \* the first encode of the lineage: the created it was given, its time
    hit,       \* the position of data that was altered (0: none)
    result,    \* what the last Decode / ReadFile returned
    verdict,   \* what the last VerifyIntegrity returned
    sr,        \* the StreamReader
    tree,      \* the nodes a MemoryTree was built over
    found,     \* what the last Search returned
    answer     \* what the last lookup in the index returned

vars == <<file, now, data, onDisk, origin, encIn, encAt, born, hit, result, verdict, sr, tree, found, answer>>

----------------------------------------------------------------------------
(* Bounds of the model.                                                    *)

\* longest node sequence of a file handed to Encode
MaxNodes == 2
\* last clock value
MaxTime == 2
\* longest node sequence a MemoryTree is built over
MaxTreeNodes == 3

----------------------------------------------------------------------------
(* Wire items.                                                             *)

Tok(t, n, s) == [t |-> t, n |-> n, s |-> s]
TByte(b) == Tok("byte", b, "")
TNil     == Tok("nil", 0, "")
TStr(s)  == Tok("str", 0, s)
TInt(n)  == Tok("int", n, "")
TF32(x)  == Tok("f32", x, "")
TMap(n)  == Tok("map", n, "")
TArr(n)  == Tok("arr", n, "")
\* the stump of an item cut short by the end of the input
TCut     == Tok("cut", 0, "")

\* "ENGRAM"
MagicBytes == <<TByte(69), TByte(78), TByte(71), TByte(82), TByte(65), TByte(77)>>

ErrNone            == "nil"
ErrInvalidMagic    == "ErrInvalidMagic"
ErrIntegrityFailed == "ErrIntegrityFailed"
ErrDecodeHeader    == "failed to decode header"
ErrDecodeNodes     == "failed to decode nodes"
ErrDecodeNode      == "failed to decode node"
ErrReadFile        == "failed to read file"
ErrReadMagic       == "failed to read magic bytes"

----------------------------------------------------------------------------
(* The types.                                                              *)

ZeroSchema   == [version |-> "", embeddingModel |-> "", embeddingDim |-> 0, features |-> <<>>]
ZeroSecurity == [integrity |-> "", encryption |-> "", keyId |-> ""]
ZeroMeta     == [title |-> "", description |-> "", author |-> "", license |-> "", tags |-> <<>>]
ZeroHeader   == [version |-> "", created |-> "", modified |-> "", nodeCount |-> 0,
                 schema |-> ZeroSchema, security |-> ZeroSecurity, metadata |-> ZeroMeta]
ZeroNode     == [id |-> "", content |-> "", embedding |-> <<>>, tags |-> <<>>,
                 children |-> <<>>, parentId |-> ""]

Zero(kind) ==
    CASE kind = "node"     -> ZeroNode
      [] kind = "header"   -> ZeroHeader
      [] kind = "schema"   -> ZeroSchema
      [] kind = "security" -> ZeroSecurity
      [] kind = "metadata" -> ZeroMeta

\* the number of fields of each struct type
NumFields(kind) ==
    CASE kind = "node"     -> 9
      [] kind = "header"   -> 7
      [] kind = "schema"   -> 4
      [] kind = "security" -> 3
      [] kind = "metadata" -> 6

----------------------------------------------------------------------------
(* msgpack.Marshal.                                                        *)

RECURSIVE Flatten(_)
Flatten(ss) == IF ss = <<>> THEN <<>> ELSE Head(ss) \o Flatten(Tail(ss))

EncStrings(xs) == <<TArr(Len(xs))>> \o [i \in 1..Len(xs) |-> TStr(xs[i])]
EncFloats(xs)  == <<TArr(Len(xs))>> \o [i \in 1..Len(xs) |-> TF32(xs[i])]

\* one struct field: its key and value, or nothing when omitempty drops it
Field(name, omit, value) == IF omit THEN <<>> ELSE <<<<TStr(name)>> \o value>>

\* a struct: a map head counting the fields kept, then the fields in order
EncStruct(fields) == <<TMap(Len(fields))>> \o Flatten(fields)

SchemaFields(s) ==
       Field("version", s.version = "", <<TStr(s.version)>>)
    \o Field("embeddingModel", s.embeddingModel = "", <<TStr(s.embeddingModel)>>)
    \o Field("embeddingDim", s.embeddingDim = 0, <<TInt(s.embeddingDim)>>)
    \o Field("features", s.features = <<>>, EncStrings(s.features))

SecurityFields(s) ==
       Field("integrity", s.integrity = "", <<TStr(s.integrity)>>)
    \o Field("encryption", s.encryption = "", <<TStr(s.encryption)>>)
    \o Field("keyId", s.keyId = "", <<TStr(s.keyId)>>)

MetaFields(m) ==
       Field("title", m.title = "", <<TStr(m.title)>>)
    \o Field("description", m.description = "", <<TStr(m.description)>>)
    \o Field("author", m.author = "", <<TStr(m.author)>>)
    \o Field("license", m.license = "", <<TStr(m.license)>>)
    \o Field("tags", m.tags = <<>>, EncStrings(m.tags))

EncodeHeader(h) ==
    EncStruct(
           Field("version", FALSE, <<TStr(h.version)>>)
        \o Field("created", FALSE, <<TStr(h.created)>>)
        \o Field("modified", FALSE, <<TStr(h.modified)>>)
        \o Field("nodeCount", FALSE, <<TInt(h.nodeCount)>>)
        \o Field("schema", SchemaFields(h.schema) = <<>>, EncStruct(SchemaFields(h.schema)))
        \o Field("security", SecurityFields(h.security) = <<>>, EncStruct(SecurityFields(h.security)))
        \o Field("metadata", MetaFields(h.metadata) = <<>>, EncStruct(MetaFields(h.metadata))))

\* EncodeNode with the parent written under a key Decode does not know
EncodeNodeMisnamed(n) ==
    EncStruct(
           Field("id", FALSE, <<TStr(n.id)>>)
        \o Field("content", FALSE, <<TStr(n.content)>>)
        \o Field("embedding", n.embedding = <<>>, EncFloats(n.embedding))
        \o Field("tags", n.tags = <<>>, EncStrings(n.tags))
        \o Field("children", n.children = <<>>, EncStrings(n.children))
        \o Field("parentID", n.parentId = "", <<TStr(n.parentId)>>))

EncodeNode(n) ==
    EncStruct(
           Field("id", FALSE, <<TStr(n.id)>>)
        \o Field("content", FALSE, <<TStr(n.content)>>)
        \o Field("embedding", n.embedding = <<>>, EncFloats(n.embedding))
        \o Field("tags", n.tags = <<>>, EncStrings(n.tags))
        \o Field("children", n.children = <<>>, EncStrings(n.children))
        \o Field("parentId", n.parentId = "", <<TStr(n.parentId)>>))

\* msgpack.Marshal(file.Nodes): a nil slice is nil, any other an array
EncodeNodes(nodes, isNil) ==
    IF isNil THEN <<TNil>>
    ELSE <<TArr(Len(nodes))>> \o Flatten([i \in 1..Len(nodes) |-> EncodeNode(nodes[i])])

----------------------------------------------------------------------------
(* msgpack.Decoder: each decoder reads the item at position i of wire w    *)
(* and answers the error (or ""), the value and the position it stopped    *)
(* at.  A refused item has been consumed.                                  *)

Ok(v, i)   == [err |-> "", v |-> v, i |-> i]
Fail(e, i) == [err |-> e, v |-> <<>>, i |-> i]

\* reading past the end, or into an item the end cut short
Short(w, i) == IF i > Len(w) THEN Fail("EOF", i) ELSE Fail("ErrUnexpectedEOF", i + 1)
IsShort(w, i) == i > Len(w) \/ w[i].t = "cut"

DecodeString(w, i) ==
    IF IsShort(w, i) THEN Short(w, i)
    ELSE CASE w[i].t = "str" -> Ok(w[i].s, i + 1)
           [] w[i].t = "nil" -> Ok("", i + 1)
           [] OTHER          -> Fail("invalid code decoding string", i + 1)

DecodeInt(w, i) ==
    IF IsShort(w, i) THEN Short(w, i)
    ELSE CASE w[i].t = "int" -> Ok(w[i].n, i + 1)
           [] w[i].t = "nil" -> Ok(0, i + 1)
           [] OTHER          -> Fail("invalid code decoding int", i + 1)

DecodeFloat32(w, i) ==
    IF IsShort(w, i) THEN Short(w, i)
    ELSE CASE w[i].t = "f32" -> Ok(w[i].n, i + 1)
           [] w[i].t = "int" -> Ok(w[i].n, i + 1)
           [] w[i].t = "nil" -> Ok(0, i + 1)
           [] OTHER          -> Fail("invalid code decoding float32", i + 1)

\* -1 is the length of nil
DecodeArrayLen(w, i) ==
    IF IsShort(w, i) THEN Short(w, i)
    ELSE CASE w[i].t = "arr" -> Ok(w[i].n, i + 1)
           [] w[i].t = "nil" -> Ok(-1, i + 1)
           [] OTHER          -> Fail("invalid code decoding array length", i + 1)

DecodeScalar(w, i, type) ==
    CASE type = "str" -> DecodeString(w, i)
      [] type = "int" -> DecodeInt(w, i)
      [] type = "f32" -> DecodeFloat32(w, i)

RECURSIVE DecodeItems(_, _, _, _, _)
\* the rest of a slice once element r was read
ItemsRest(w, k, type, acc, r) ==
    IF r.err # "" THEN r ELSE DecodeItems(w, r.i, k - 1, type, Append(acc, r.v))
DecodeItems(w, i, k, type, acc) ==
    IF k <= 0 THEN Ok(acc, i) ELSE ItemsRest(w, k, type, acc, DecodeScalar(w, i, type))

\* []string, []float32: the elements that follow array length h
SliceItems(w, type, h) ==
    IF h.err # "" THEN h ELSE DecodeItems(w, h.i, h.v, type, <<>>)
DecodeSlice(w, i, type) == SliceItems(w, type, DecodeArrayLen(w, i))

RECURSIVE Skip(_, _)
RECURSIVE SkipN(_, _, _)
Skip(w, i) ==
    IF IsShort(w, i) THEN Short(w, i)
    ELSE CASE w[i].t \in {"str", "int", "f32", "nil"} -> Ok(<<>>, i + 1)
           [] w[i].t = "arr" -> SkipN(w, i + 1, w[i].n)
           [] w[i].t = "map" -> SkipN(w, i + 1, 2 * w[i].n)
           [] OTHER          -> Fail("invalid code", i + 1)
SkipRest(w, k, r) == IF r.err # "" THEN r ELSE SkipN(w, r.i, k - 1)
SkipN(w, i, k) == IF k <= 0 THEN Ok(<<>>, i) ELSE SkipRest(w, k, Skip(w, i))

\* the fields of each struct in declaration order, with their types
FieldList(kind) ==
    CASE kind = "node" ->
            << <<"id", "str">>, <<"content", "str">>, <<"embedding", "f32s">>,
               <<"tags", "strs">>, <<"entities", "skip">>, <<"links", "skip">>,
               <<"metadata", "skip">>, <<"children", "strs">>, <<"parentId", "str">> >>
      [] kind = "header" ->
            << <<"version", "str">>, <<"created", "str">>, <<"modified", "str">>,
               <<"nodeCount", "int">>, <<"schema", "schema">>,
               <<"security", "security">>, <<"metadata", "metadata">> >>
      [] kind = "schema" ->
            << <<"version", "str">>, <<"embeddingModel", "str">>,
               <<"embeddingDim", "int">>, <<"features", "strs">> >>
      [] kind = "security" ->
            << <<"integrity", "str">>, <<"encryption", "str">>, <<"keyId", "str">> >>
      [] kind = "metadata" ->
            << <<"title", "str">>, <<"description", "str">>, <<"author", "str">>,
               <<"license", "str">>, <<"tags", "strs">>, <<"custom", "skip">> >>

\* the type of the field a key names; a key that names none is skipped
TypeIn(fl, name) ==
    IF \E k \in 1..Len(fl) : fl[k][1] = name
    THEN fl[CHOOSE k \in 1..Len(fl) : fl[k][1] = name][2]
    ELSE "skip"
FieldType(kind, name) == TypeIn(FieldList(kind), name)

RECURSIVE DecodeStructValue(_, _, _)
RECURSIVE DecodeStruct(_, _, _, _, _)
RECURSIVE DecodeArrayStruct(_, _, _, _, _)

\* the value of a field of the given type
ReadField(w, i, type) ==
    CASE type \in {"str", "int"} -> DecodeScalar(w, i, type)
      [] type = "strs" -> DecodeSlice(w, i, "str")
      [] type = "f32s" -> DecodeSlice(w, i, "f32")
      [] type = "skip" -> Skip(w, i)
      [] OTHER         -> DecodeStructValue(w, i, type)

\* acc with the value r read for field `name`
StoreField(name, acc, type, r) ==
    IF r.err # "" THEN r
    ELSE IF type = "skip" THEN Ok(acc, r.i)
    ELSE Ok([acc EXCEPT ![name] = r.v], r.i)

DecodeFieldValue(w, i, kind, name, acc) ==
    StoreField(name, acc, FieldType(kind, name), ReadField(w, i, FieldType(kind, name)))

\* decodeStruct: n pairs of a key and the value of the field it names
StructRest(w, n, kind, r) ==
    IF r.err # "" THEN r ELSE DecodeStruct(w, r.i, n - 1, kind, r.v)
StructPair(w, n, kind, acc, key) ==
    IF key.err # "" THEN key
    ELSE StructRest(w, n, kind, DecodeFieldValue(w, key.i, kind, key.v, acc))
DecodeStruct(w, i, n, kind, acc) ==
    IF n <= 0 THEN Ok(acc, i) ELSE StructPair(w, n, kind, acc, DecodeString(w, i))

\* a struct encoded as an array: the fields by position, from field k on
ArrayRest(w, k, kind, r) ==
    IF r.err # "" THEN r ELSE DecodeArrayStruct(w, r.i, k + 1, kind, r.v)
DecodeArrayStruct(w, i, k, kind, acc) ==
    IF k > Len(FieldList(kind)) THEN Ok(acc, i)
    ELSE ArrayRest(w, k, kind, DecodeFieldValue(w, i, kind, FieldList(kind)[k][1], acc))

\* decodeStructValue: a map, nil (the zero value), or an array
DecodeStructValue(w, i, kind) ==
    IF IsShort(w, i) THEN Short(w, i)
    ELSE CASE w[i].t = "map" -> DecodeStruct(w, i + 1, w[i].n, kind, Zero(kind))
           [] w[i].t = "nil" -> Ok(Zero(kind), i + 1)
           [] w[i].t = "arr" ->
                IF w[i].n <= 0 THEN Ok(Zero(kind), i + 1)
                ELSE IF w[i].n # NumFields(kind)
                     THEN Fail("number of fields in array-encoded struct has changed", i + 1)
                     ELSE DecodeArrayStruct(w, i + 1, 1, kind, Zero(kind))
           [] OTHER -> Fail("invalid code decoding map length", i + 1)

RECURSIVE DecodeStructs(_, _, _, _, _)
StructsRest(w, k, kind, acc, r) ==
    IF r.err # "" THEN r ELSE DecodeStructs(w, r.i, k - 1, kind, Append(acc, r.v))
DecodeStructs(w, i, k, kind, acc) ==
    IF k <= 0 THEN Ok(acc, i)
    ELSE StructsRest(w, k, kind, acc, DecodeStructValue(w, i, kind))

\* Decode(&nodes): []MemoryNode; isNil tells a nil slice from an empty one
NodesRead(isNil, r) ==
    IF r.err # "" THEN r ELSE Ok([nodes |-> r.v, isNil |-> isNil], r.i)
NodesAfter(w, h) ==
    IF h.err # "" THEN h
    ELSE NodesRead(h.v = -1, DecodeStructs(w, h.i, h.v, "node", <<>>))
DecodeNodeSlice(w, i) == NodesAfter(w, DecodeArrayLen(w, i))

----------------------------------------------------------------------------
(* The codec.                                                              *)

\* sha256.Sum256: a digest no two inputs share (the items written out)
RECURSIVE Sum256(_)
Sum256(bytes) ==
    IF bytes = <<>> THEN ""
    ELSE LET b == Head(bytes)
         IN  b.t \o ToString(b.n) \o "'" \o b.s \o "'" \o Sum256(Tail(bytes))
\* hex.EncodeToString: the digest in lowercase hexadecimal digits
EncodeToString(hash) == "hex:" \o hash
\* the same digest in uppercase hexadecimal digits, as another writer may
\* store it: a string that differs from the lowercase one byte by byte
UpperHex(hash) == "HEX:" \o hash

\* time.Time.UTC().Format(time.RFC3339) of clock value t
RFC3339(t) == "2026-11-02T00:00:0" \o ToString(t) \o "Z"

\* UpdateHeader keeping a digest the caller supplied
UpdateHeaderKeepIntegrity(f, t, integrity) ==
    LET h0 == f.header
        h1 == [h0 EXCEPT !.nodeCount = Len(f.nodes), !.modified = RFC3339(t)]
        h2 == IF h1.created = "" THEN [h1 EXCEPT !.created = h1.modified] ELSE h1
        h3 == IF h2.version = "" THEN [h2 EXCEPT !.version = "1.0"] ELSE h2
    IN  IF h3.security.integrity = "" THEN [h3 EXCEPT !.security.integrity = integrity] ELSE h3

\* UpdateHeader stamping created on every encode
UpdateHeaderResetCreated(f, t, integrity) ==
    LET h0 == f.header
        h1 == [h0 EXCEPT !.nodeCount = Len(f.nodes), !.modified = RFC3339(t)]
        h2 == [h1 EXCEPT !.created = h1.modified]
        h3 == IF h2.version = "" THEN [h2 EXCEPT !.version = "1.0"] ELSE h2
    IN  [h3 EXCEPT !.security.integrity = integrity]

\* the header Encode serializes: the caller's with the computed fields set
UpdateHeader(f, t, integrity) ==
    LET h0 == f.header
        h1 == [h0 EXCEPT !.nodeCount = Len(f.nodes), !.modified = RFC3339(t)]
        h2 == IF h1.created = "" THEN [h1 EXCEPT !.created = h1.modified] ELSE h1
        h3 == IF h2.version = "" THEN [h2 EXCEPT !.version = "1.0"] ELSE h2
    IN  [h3 EXCEPT !.security.integrity = integrity]

\* Encode at clock value t: magic + header + payload (Marshal cannot fail on
\* these types)
Encode(f, t) ==
    LET payloadBytes == EncodeNodes(f.nodes, f.nodesNil)
        integrity == EncodeToString(Sum256(payloadBytes))
        headerBytes == EncodeHeader(UpdateHeader(f, t, integrity))
    IN  MagicBytes \o headerBytes \o payloadBytes

NoFile == [header |-> ZeroHeader, nodes |-> <<>>, nodesNil |-> TRUE]
\* a (*EngramFile, error) pair with the steps Decode went through
Returned(err, f, steps) == [err |-> err, isNil |-> err # ErrNone, file |-> f, steps |-> steps]
NotCalled == [err |-> "not called", isNil |-> TRUE, file |-> NoFile, steps |-> <<>>]

\* the header at the head of the bytes, and where it ends (payloadStart)
HeaderOf(bytes) == DecodeStructValue(bytes, 7, "header")

\* what Decode returns once the payload was deserialized into p
NodesDecoded(header, steps, p) ==
    IF p.err # ""
    THEN Returned(ErrDecodeNodes, NoFile, steps)
    ELSE Returned(ErrNone,
                  [header |-> header, nodes |-> p.v.nodes, nodesNil |-> p.v.isNil],
                  steps)

\* DecodePayload without the integrity check
DecodePayloadUnverified(header, payloadBytes) ==
    NodesDecoded(header, <<"magic", "header", "payload">>,
                 DecodeNodeSlice(payloadBytes, 1))

\* DecodePayload deserializing the payload before it compares the digest
DecodePayloadFirst(header, payloadBytes) ==
    IF DecodeNodeSlice(payloadBytes, 1).err = ""
       /\ header.security.integrity # ""
       /\ EncodeToString(Sum256(payloadBytes)) # header.security.integrity
    THEN Returned(ErrIntegrityFailed, NoFile, <<"magic", "header", "payload", "integrity">>)
    ELSE NodesDecoded(header,
                      <<"magic", "header", "payload">> \o
                          (IF header.security.integrity # "" THEN <<"integrity">> ELSE <<>>),
                      DecodeNodeSlice(payloadBytes, 1))

\* Decode from the integrity check on: the digest is compared, if the
\* header has one, and then the payload is deserialized
DecodePayload(header, payloadBytes) ==
    IF header.security.integrity # ""
    THEN IF EncodeToString(Sum256(payloadBytes)) # header.security.integrity
         THEN Returned(ErrIntegrityFailed, NoFile, <<"magic", "header", "integrity">>)
         ELSE NodesDecoded(header, <<"magic", "header", "integrity", "payload">>,
                           DecodeNodeSlice(payloadBytes, 1))
    ELSE NodesDecoded(header, <<"magic", "header", "payload">>,
                      DecodeNodeSlice(payloadBytes, 1))

\* Decode once the header was read as h
DecodeAfterHeader(bytes, h) ==
    IF h.err # ""
    THEN Returned(ErrDecodeHeader, NoFile, <<"magic", "header">>)
    ELSE DecodePayload(h.v, SubSeq(bytes, h.i, Len(bytes)))

Decode(bytes) ==
    IF Len(bytes) < 6 \/ SubSeq(bytes, 1, 6) # MagicBytes
    THEN Returned(ErrInvalidMagic, NoFile, <<"magic">>)
    ELSE DecodeAfterHeader(bytes, HeaderOf(bytes))

\* ReadFile: os.ReadFile, then Decode
ReadFile(bytes, readable) ==
    IF ~readable THEN Returned(ErrReadFile, NoFile, <<>>) ELSE Decode(bytes)

\* IntegrityVerdict reporting every failure as (false, nil)
IntegrityVerdictLax(r) ==
    IF r.err # ErrNone
    THEN [valid |-> FALSE, err |-> ErrNone]
    ELSE [valid |-> TRUE, err |-> ErrNone]

\* the (bool, error) pair VerifyIntegrity makes of what ReadFile returned
IntegrityVerdict(r) ==
    IF r.err # ErrNone
    THEN IF r.err = ErrIntegrityFailed
         THEN [valid |-> FALSE, err |-> ErrNone]
         ELSE [valid |-> FALSE, err |-> r.err]
    ELSE [valid |-> TRUE, err |-> ErrNone]

VerifyIntegrity(bytes, readable) == IntegrityVerdict(ReadFile(bytes, readable))

----------------------------------------------------------------------------
(* The streaming reader.                                                   *)

\* no StreamReader yet
NoReader == [open |-> FALSE, err |-> "not called", src |-> <<>>, clean |-> FALSE,
             pos |-> 1, Header |-> ZeroHeader, count |-> 0, index |-> 0,
             last |-> "none", node |-> ZeroNode, yielded |-> <<>>, failed |-> FALSE]

\* the StreamReader once the magic bytes matched and the header was read as h
ReaderOver(bytes, clean, h) ==
    IF h.err # ""
    THEN [NoReader EXCEPT !.err = ErrDecodeHeader]
    ELSE [NoReader EXCEPT !.open = TRUE, !.err = ErrNone, !.src = bytes,
                          !.clean = clean, !.pos = h.i, !.Header = h.v,
                          !.count = h.v.nodeCount, !.index = 0]

\* NewStreamReader over a source holding bytes; clean records whether the
\* bytes are Encode's output as written
NewStreamReader(bytes, clean) ==
    IF Len(bytes) < 6 \/ \E k \in 1..6 : bytes[k].t = "cut"
    THEN [NoReader EXCEPT !.err = ErrReadMagic]
    ELSE IF SubSeq(bytes, 1, 6) # MagicBytes
    THEN [NoReader EXCEPT !.err = ErrInvalidMagic]
    ELSE ReaderOver(bytes, clean, HeaderOf(bytes))

\* Next once the decoder answered d for the node
NodeDecoded(r, d) ==
    IF d.err # ""
    THEN IF d.err = "EOF"
         THEN [r EXCEPT !.pos = d.i, !.last = "done", !.node = ZeroNode]
         ELSE [r EXCEPT !.pos = d.i, !.last = "error", !.node = ZeroNode,
                        !.failed = TRUE]
    ELSE [r EXCEPT !.pos = d.i, !.index = r.index + 1, !.last = "node",
                   !.node = d.v, !.yielded = Append(r.yielded, d.v)]

\* Next without the bound header.nodeCount puts on the records
NextUnbounded(r) == NodeDecoded(r, DecodeStructValue(r.src, r.pos, "node"))

\* StreamReader.Next: last is what the call returned, "node" (node, nil),
\* "done" (nil, nil) or "error" (nil, err)
Next(r) ==
    IF r.index >= r.count
    THEN [r EXCEPT !.last = "done", !.node = ZeroNode]
    ELSE NodeDecoded(r, DecodeStructValue(r.src, r.pos, "node"))

----------------------------------------------------------------------------
(* The index.                                                              *)

Range(f) == {f[x] : x \in DOMAIN f}

\* the positions of S in the order the loops over t.nodes visit them
RECURSIVE Ascending(_)
Ascending(S) ==
    IF S = {} THEN <<>>
    ELSE LET first == CHOOSE x \in S : \A y \in S : x <= y
         IN  <<first>> \o Ascending(S \ {first})

\* NewMemoryTree: node references are positions in nodes; a tag's bucket
\* gets the node once for every time the node lists the tag
RECURSIVE TagBucket(_, _, _)
TagBucket(nodes, tag, k) ==
    IF k > Len(nodes) THEN <<>>
    ELSE LET hits == {j \in 1..Len(nodes[k].tags) : nodes[k].tags[j] = tag}
         IN  [j \in 1..Cardinality(hits) |-> k] \o TagBucket(nodes, tag, k + 1)

NewMemoryTree(nodes) ==
    LET ids     == {nodes[k].id : k \in 1..Len(nodes)}
        tagset  == UNION {Range(nodes[k].tags) : k \in 1..Len(nodes)}
        parents == {nodes[k].parentId : k \in 1..Len(nodes)} \ {""}
    IN  [nodes    |-> nodes,
         byID     |-> [id \in ids |-> CHOOSE k \in 1..Len(nodes) :
                          /\ nodes[k].id = id
                          /\ \A j \in 1..Len(nodes) : nodes[j].id = id => j <= k],
         byTag    |-> [tag \in tagset |-> TagBucket(nodes, tag, 1)],
         children |-> [p \in parents |->
                          Ascending({k \in 1..Len(nodes) : nodes[k].parentId = p})]]

\* GetByTag: the tag's bucket, nil for a tag the table does not have
GetByTag(t, tag) == IF tag \in DOMAIN t.byTag THEN t.byTag[tag] ELSE <<>>

\* the bytes of the strings that serve as tags
Bytes(str) ==
    CASE str = "x"  -> <<120>>
      [] str = "y"  -> <<121>>
      [] str = "xy" -> <<120, 121>>
      [] str = "Y"  -> <<89>>
      [] OTHER      -> <<>>

\* a < b on Go strings: byte by byte, a proper prefix first
RECURSIVE BytesLess(_, _)
BytesLess(a, b) ==
    IF b = <<>> THEN FALSE
    ELSE IF a = <<>> THEN TRUE
    ELSE IF Head(a) # Head(b) THEN Head(a) < Head(b)
    ELSE BytesLess(Tail(a), Tail(b))
StringLess(a, b) == BytesLess(Bytes(a), Bytes(b))

\* sort.Strings over strings that are all different
RECURSIVE SortStrings(_)
SortStrings(S) ==
    IF S = {} THEN <<>>
    ELSE LET least == CHOOSE x \in S : \A y \in S \ {x} : StringLess(x, y)
         IN  <<least>> \o SortStrings(S \ {least})

\* GetTags without the sort: the keys as one iteration of the map gives them
GetTagsUnsorted(t) ==
    LET sorted == SortStrings(DOMAIN t.byTag)
    IN  [k \in 1..Len(sorted) |-> sorted[Len(sorted) + 1 - k]]

\* GetTags: the keys of the tag table, sorted
GetTags(t) == SortStrings(DOMAIN t.byTag)

\* GetChildren: the parent's entry, nil for an id the table does not have
GetChildren(t, parentID) ==
    IF parentID \in DOMAIN t.children THEN t.children[parentID] ELSE <<>>

\* GetRoots: the nodes without a parent, in the order of t.nodes
GetRoots(t) == Ascending({k \in 1..Len(t.nodes) : t.nodes[k].parentId = ""})

\* a score is the cosine's square with the cosine's sign, as a fraction
\* num / den with den > 0: the order of scores is the order of the cosines
Score(num, den) == [num |-> num, den |-> den]
Greater(s1, s2) == s1.num * s2.den > s2.num * s1.den

RECURSIVE Dot(_, _)
Dot(a, b) == IF a = <<>> THEN 0 ELSE Head(a) * Head(b) + Dot(Tail(a), Tail(b))

cosineSimilarity(a, b) ==
    IF Len(a) # Len(b) \/ Len(a) = 0 THEN Score(0, 1)
    ELSE LET dotProduct == Dot(a, b)
             normA == Dot(a, a)
             normB == Dot(b, b)
         IN  IF normA = 0 \/ normB = 0 THEN Score(0, 1)
             ELSE Score((IF dotProduct < 0 THEN -1 ELSE 1) * dotProduct * dotProduct,
                        normA * normB)

\* the results before sorting: every node with an embedding, scored
Scored(t, queryEmbedding) ==
    LET at == Ascending({k \in 1..Len(t.nodes) : Len(t.nodes[k].embedding) # 0})
    IN  [j \in 1..Len(at) |->
            [Node |-> at[j],
             Score |-> cosineSimilarity(queryEmbedding, t.nodes[at[j]].embedding)]]

\* less of the sort: results[i].Score > results[j].Score
Less(x, y) == Greater(x.Score, y.Score)

\* sort.Slice(results, less): every order of results that less allows (the
\* sort is not stable: elements less does not tell apart may land either way)
SortSlice(results) ==
    LET n == Len(results)
        perms == {p \in [1..n -> 1..n] : \A i, j \in 1..n : i # j => p[i] # p[j]}
    IN  {[k \in 1..n |-> results[p[k]]] : p \in
            {q \in perms : \A i, j \in 1..n : i < j => ~Less(results[q[j]], results[q[i]])}}

\* results[:limit]
Limit(results, limit) ==
    IF limit > 0 /\ Len(results) > limit THEN SubSeq(results, 1, limit) ELSE results

\* Search ranking the lowest score first
SearchAscending(t, queryEmbedding, limit) ==
    IF Len(queryEmbedding) = 0 THEN {<<>>}
    ELSE {Limit([k \in 1..Len(sorted) |-> sorted[Len(sorted) + 1 - k]], limit) :
            sorted \in SortSlice(Scored(t, queryEmbedding))}

\* Search: the results it may return
Search(t, queryEmbedding, limit) ==
    IF Len(queryEmbedding) = 0 THEN {<<>>}
    ELSE {Limit(sorted, limit) : sorted \in SortSlice(Scored(t, queryEmbedding))}

----------------------------------------------------------------------------
(* Inputs.                                                                 *)

RECURSIVE SeqsUpTo(_, _)
SeqsUpTo(S, n) ==
    IF n = 0 THEN {<<>>}
    ELSE LET shorter == SeqsUpTo(S, n - 1)
         IN  shorter \cup {Append(q, x) : q \in {r \in shorter : Len(r) = n - 1}, x \in S}

\* headers as callers hand them in: empty, as the tests build it, and one
\* carrying every field, with stale values in the fields Encode computes
HeaderTest == [ZeroHeader EXCEPT !.version = "1.0", !.metadata.title = "Test File"]
HeaderFull ==
    [version |-> "2.0", created |-> "2020-01-01T00:00:00Z",
     modified |-> "2021-01-01T00:00:00Z", nodeCount |-> 7,
     schema |-> [version |-> "1", embeddingModel |-> "minilm", embeddingDim |-> 2,
                 features |-> <<"links">>],
     security |-> [integrity |-> "hex:stale", encryption |-> "aes-256-gcm", keyId |-> "k1"],
     metadata |-> [title |-> "My Memories", description |-> "", author |-> "Gopher",
                   license |-> "MIT", tags |-> <<"a", "b">>]]
Headers == {ZeroHeader, HeaderTest, HeaderFull}

Node1 == [id |-> "node-1", content |-> "First memory", embedding |-> <<1, 0>>,
          tags |-> <<"test", "first">>, children |-> <<"node-2">>, parentId |-> ""]
Node2 == [id |-> "node-2", content |-> "", embedding |-> <<>>, tags |-> <<>>,
          children |-> <<>>, parentId |-> "node-1"]
Nodes == {Node1, Node2}

Files ==
    {[header |-> h, nodes |-> ns, nodesNil |-> nil] :
        h \in Headers, ns \in SeqsUpTo(Nodes, MaxNodes), nil \in BOOLEAN}
    \ {f \in [header : Headers, nodes : SeqsUpTo(Nodes, MaxNodes), nodesNil : {TRUE}] :
        f.nodes # <<>>}

\* what a changed position may hold
Alterations == {TNil, TInt(1), TStr(""), TMap(1)}

\* nodes a tree is built over: embeddings that tie (a, c), that are absent
\* (d), of another dimension (e); a repeated tag (c); a parent nobody has (c);
\* tags that differ in case and in length (e)
TreeNodes ==
    {[id |-> "a", content |-> "Apple", embedding |-> <<1, 0>>, tags |-> <<"x">>,
      children |-> <<"b", "d">>, parentId |-> ""],
     [id |-> "b", content |-> "Banana", embedding |-> <<0, 1>>, tags |-> <<"y", "x">>,
      children |-> <<>>, parentId |-> "a"],
     [id |-> "c", content |-> "Cherry", embedding |-> <<2, 0>>, tags |-> <<"x", "x">>,
      children |-> <<>>, parentId |-> "zz"],
     [id |-> "d", content |-> "Date", embedding |-> <<>>, tags |-> <<>>,
      children |-> <<>>, parentId |-> "a"],
     [id |-> "e", content |-> "Elder", embedding |-> <<1>>, tags |-> <<"xy", "Y">>,
      children |-> <<>>, parentId |-> ""]}
\* tags and ids a lookup asks for: those in use, and one nobody has
TagsAsked == {"x", "y", "xy", "Y", "z"}
IdsAsked == {"a", "b", "c", "d", "e", "zz", "q"}
Queries == {<<>>, <<1, 0>>, <<1, 1>>, <<0, 0>>, <<-1, 2>>}
Limits == {-1, 0, 1, 2}

----------------------------------------------------------------------------
(* The state machine.                                                      *)

NotVerified == [valid |-> FALSE, err |-> "not called"]
NotFound == [called |-> FALSE, query |-> <<>>, limit |-> 0, results |-> <<>>]
NotBorn == [set |-> FALSE, given |-> "", at |-> 0]
NotAsked == [op |-> "none", arg |-> "", refs |-> <<>>, tags |-> <<>>]

Start(files) ==
    /\ file \in files
    /\ now = 0
    /\ data = <<>>
    /\ onDisk = FALSE
    /\ origin = "none"
    /\ encIn = NoFile
    /\ encAt = 0
    /\ born = NotBorn
    /\ hit = 0
    /\ result = NotCalled
    /\ verdict = NotVerified
    /\ sr = NoReader
    /\ tree = NewMemoryTree(<<>>)
    /\ found = NotFound
    /\ answer = NotAsked

\* a second passes
Tick ==
    /\ now < MaxTime
    /\ now' = now + 1
    /\ UNCHANGED <<file, data, onDisk, origin, encIn, encAt, born, hit, result, verdict,
                   sr, tree, found, answer>>

\* WriteFile(path, file): Encode, then os.WriteFile
WriteFile ==
    /\ origin = "none"
    /\ data' = Encode(file, now)
    /\ onDisk' = TRUE
    /\ origin' = "encoded"
    /\ encIn' = file
    /\ encAt' = now
    /\ born' = IF born.set THEN born
               ELSE [set |-> TRUE, given |-> file.header.created, at |-> now]
    /\ hit' = 0
    /\ result' = NotCalled
    /\ verdict' = NotVerified
    /\ UNCHANGED <<file, now, sr, tree, found, answer>>

\* ReadFile(path)
ReadFileStep ==
    /\ origin # "none"
    /\ result' = ReadFile(data, onDisk)
    /\ UNCHANGED <<file, now, data, onDisk, origin, encIn, encAt, born, hit, verdict,
                   sr, tree, found, answer>>

\* the caller goes on with the file it read: f1 = Decode(Encode(f0))
Adopt ==
    /\ result.err = ErrNone
    /\ file' = result.file
    /\ origin' = "none"
    /\ result' = NotCalled
    /\ UNCHANGED <<now, data, onDisk, encIn, encAt, born, hit, verdict, sr, tree, found, answer>>

\* one position of the encoded bytes changes
Corrupt ==
    /\ origin = "encoded"
    /\ ~sr.open
    /\ \E k \in 1..Len(data), tok \in Alterations \cup {TByte(0)} :
          /\ tok # data[k]
          /\ (tok.t = "byte") = (k <= 6)
          /\ data' = [data EXCEPT ![k] = tok]
          /\ hit' = k
    /\ origin' = "altered"
    /\ result' = NotCalled
    /\ verdict' = NotVerified
    /\ UNCHANGED <<file, now, onDisk, encIn, encAt, born, sr, tree, found, answer>>

\* the encoded bytes end early: at an item's end, or inside an item
Truncate ==
    /\ origin = "encoded"
    /\ ~sr.open
    /\ \E k \in 0..(Len(data) - 1), stump \in {<<>>, <<TCut>>} :
          /\ data' = SubSeq(data, 1, k) \o stump
          /\ hit' = k + 1
    /\ origin' = "altered"
    /\ result' = NotCalled
    /\ verdict' = NotVerified
    /\ UNCHANGED <<file, now, onDisk, encIn, encAt, born, sr, tree, found, answer>>

\* the file comes from a writer that stores the digest of the payload in
\* uppercase: the header is rewritten, the payload bytes stay
StoreUpper ==
    /\ origin = "encoded"
    /\ LET h       == HeaderOf(data)
           payload == SubSeq(data, h.i, Len(data))
       IN  data' = MagicBytes
                   \o EncodeHeader([h.v EXCEPT !.security.integrity =
                                                  UpperHex(Sum256(payload))])
                   \o payload
    /\ origin' = "upper"
    /\ result' = NotCalled
    /\ verdict' = NotVerified
    /\ UNCHANGED <<file, now, onDisk, encIn, encAt, born, hit, sr, tree, found, answer>>

\* the file at the path goes away
Remove ==
    /\ onDisk
    /\ onDisk' = FALSE
    /\ result' = NotCalled
    /\ verdict' = NotVerified
    /\ UNCHANGED <<file, now, data, origin, encIn, encAt, born, hit, sr, tree, found, answer>>

\* VerifyIntegrity(path)
VerifyIntegrityStep ==
    /\ origin # "none"
    /\ verdict' = VerifyIntegrity(data, onDisk)
    /\ UNCHANGED <<file, now, data, onDisk, origin, encIn, encAt, born, hit, result,
                   sr, tree, found, answer>>

\* NewStreamReader(f) over the bytes
Open ==
    /\ origin # "none"
    /\ sr = NoReader
    /\ sr' = NewStreamReader(data, origin = "encoded")
    /\ UNCHANGED <<file, now, data, onDisk, origin, encIn, encAt, born, hit, result,
                   verdict, tree, found, answer>>

\* sr.Next()
NextStep ==
    /\ sr.open
    /\ sr' = Next(sr)
    /\ UNCHANGED <<file, now, data, onDisk, origin, encIn, encAt, born, hit, result,
                   verdict, tree, found, answer>>

\* NewMemoryTree(nodes)
Build ==
    /\ tree.nodes = <<>>
    /\ \E ns \in SeqsUpTo(TreeNodes, MaxTreeNodes) : tree' = NewMemoryTree(ns)
    /\ found' = NotFound
    /\ UNCHANGED <<file, now, data, onDisk, origin, encIn, encAt, born, hit, result,
                   verdict, sr>>
    /\ answer' = NotAsked

\* tree.Search(queryEmbedding, limit)
SearchStep ==
    /\ ~found.called
    /\ \E q \in Queries, limit \in Limits :
          \E res \in Search(tree, q, limit) :
              found' = [called |-> TRUE, query |-> q, limit |-> limit, results |-> res]
    /\ UNCHANGED <<file, now, data, onDisk, origin, encIn, encAt, born, hit, result,
                   verdict, sr, tree, answer>>

\* tree.GetByTag(tag)
GetByTagStep ==
    /\ \E tag \in TagsAsked :
          answer' = [op |-> "GetByTag", arg |-> tag, refs |-> GetByTag(tree, tag),
                     tags |-> <<>>]
    /\ UNCHANGED <<file, now, data, onDisk, origin, encIn, encAt, born, hit, result,
                   verdict, sr, tree, found>>

\* tree.GetTags()
GetTagsStep ==
    /\ answer' = [op |-> "GetTags", arg |-> "", refs |-> <<>>, tags |-> GetTags(tree)]
    /\ UNCHANGED <<file, now, data, onDisk, origin, encIn, encAt, born, hit, result,
                   verdict, sr, tree, found>>

\* tree.GetChildren(parentID)
GetChildrenStep ==
    /\ \E id \in IdsAsked :
          answer' = [op |-> "GetChildren", arg |-> id, refs |-> GetChildren(tree, id),
                     tags |-> <<>>]
    /\ UNCHANGED <<file, now, data, onDisk, origin, encIn, encAt, born, hit, result,
                   verdict, sr, tree, found>>

\* tree.GetRoots()
GetRootsStep ==
    /\ answer' = [op |-> "GetRoots", arg |-> "", refs |-> GetRoots(tree), tags |-> <<>>]
    /\ UNCHANGED <<file, now, data, onDisk, origin, encIn, encAt, born, hit, result,
                   verdict, sr, tree, found>>

\* encode / decode cycles
NextCodec == Tick \/ WriteFile \/ ReadFileStep \/ Adopt
SpecCodec == Start(Files) /\ [][NextCodec]_vars

\* files that change or vanish after they were written
NextIntegrity == WriteFile \/ Corrupt \/ Remove \/ ReadFileStep \/ VerifyIntegrityStep
SpecIntegrity == Start(Files) /\ [][NextIntegrity]_vars

\* streaming over written files, sound or not
NextStream == WriteFile \/ Corrupt \/ Truncate \/ Open \/ NextStep
SpecStream == Start(Files) /\ [][NextStream]_vars

\* the index
NextTree == Build \/ SearchStep
SpecTree == Start({NoFile}) /\ [][NextTree]_vars

\* files whose digest another writer stored
NextForeign == Tick \/ WriteFile \/ StoreUpper \/ ReadFileStep
SpecForeign == Start(Files) /\ [][NextForeign]_vars

\* the lookups of the index
NextLookup == Build \/ GetByTagStep \/ GetTagsStep \/ GetChildrenStep \/ GetRootsStep
SpecLookup == Start({NoFile}) /\ [][NextLookup]_vars

----------------------------------------------------------------------------
(* Properties.                                                             *)

\* the header the bytes carry, and where their payload begins by the size
\* of the payload Encode was given
WrittenHeader == HeaderOf(data).v
PayloadOfInput == EncodeNodes(encIn.nodes, encIn.nodesNil)
PayloadStart == Len(data) - Len(PayloadOfInput) + 1
Decoded == result.err # "not called"

\* C1: over the bytes of Encode, unaltered, calling Next until it answers
\* (nil, nil) gives no error and yields exactly the nodes Decode returns for
\* the same bytes, in the same order.
StreamingEquivalence ==
    (sr.open /\ sr.clean /\ sr.last = "done")
        => /\ ~sr.failed
           /\ Decode(sr.src).err = ErrNone
           /\ sr.yielded = Decode(sr.src).file.nodes

IntegrityEnforcement ==
    (origin = "altered" /\ Decoded /\ onDisk) =>
        /\ hit >= PayloadStart => result.err = ErrIntegrityFailed /\ result.isNil
        /\ hit <= 6 => result.err = ErrInvalidMagic /\ result.isNil
IntegrityEnforcementSeen ==
    /\ origin = "altered" /\ Decoded /\ onDisk
    /\ hit >= PayloadStart
    /\ Len(encIn.nodes) = 2
    /\ result.err = ErrIntegrityFailed

\* C4: when the header read from the bytes carries a digest, Decode compares
\* the digest before it deserializes the payload; on a mismatch it returns
\* ErrIntegrityFailed and never deserializes the payload, also when the
\* payload is malformed.
HeaderRead == Len(data) >= 6 /\ SubSeq(data, 1, 6) = MagicBytes /\ HeaderOf(data).err = ""
PayloadRead == SubSeq(data, HeaderOf(data).i, Len(data))
DigestMatches == WrittenHeader.security.integrity = EncodeToString(Sum256(PayloadRead))
DecodeStepOrder ==
    (Decoded /\ onDisk /\ HeaderRead /\ WrittenHeader.security.integrity # "") =>
        /\ \E i \in 1..Len(result.steps) :
              /\ result.steps[i] = "integrity"
              /\ \A j \in 1..Len(result.steps) : result.steps[j] = "payload" => i < j
        /\ ~DigestMatches =>
              /\ result.err = ErrIntegrityFailed
              /\ \A j \in 1..Len(result.steps) : result.steps[j] # "payload"
DecodeStepOrderSeen ==
    /\ Decoded /\ onDisk /\ HeaderRead /\ WrittenHeader.security.integrity # ""
    /\ ~DigestMatches
    /\ DecodeNodeSlice(PayloadRead, 1).err # ""
    /\ result.err = ErrIntegrityFailed

\* C5 as stated: the encoded header carries nodeCount = len(nodes), modified =
\* the encode time, integrity = the lowercase hex SHA-256 of the payload
\* bytes, and every other field exactly as the caller gave it.
Computed(h) ==
    /\ h.nodeCount = Len(encIn.nodes)
    /\ h.modified = RFC3339(encAt)
    /\ h.security.integrity = EncodeToString(Sum256(PayloadOfInput))
    /\ h.security.integrity # EncodeToString(Sum256(EncodeHeader(h)))
PassedThrough(h) ==
    /\ h.schema = encIn.header.schema
    /\ h.security.encryption = encIn.header.security.encryption
    /\ h.security.keyId = encIn.header.security.keyId
    /\ h.metadata = encIn.header.metadata
HeaderOverwriteFrame ==
    origin = "encoded" =>
        /\ HeaderOf(data).err = ""
        /\ Computed(WrittenHeader)
        /\ PassedThrough(WrittenHeader)
        /\ WrittenHeader.version = encIn.header.version
        /\ WrittenHeader.created = encIn.header.created

\* C5, amended: as above, except that an empty version is written as "1.0"
\* and an empty created as the encode time; a version or created the caller
\* set is written as given.
HeaderOverwriteDefaults ==
    origin = "encoded" =>
        /\ HeaderOf(data).err = ""
        /\ Computed(WrittenHeader)
        /\ PassedThrough(WrittenHeader)
        /\ WrittenHeader.version =
              (IF encIn.header.version = "" THEN "1.0" ELSE encIn.header.version)
        /\ WrittenHeader.created =
              (IF encIn.header.created = "" THEN RFC3339(encAt) ELSE encIn.header.created)
HeaderOverwriteSeen ==
    /\ origin = "encoded"
    /\ encIn.header.nodeCount # Len(encIn.nodes)
    /\ encIn.header.security.integrity = "hex:stale"
    /\ encIn.header.modified # RFC3339(encAt)
    /\ encIn.header.security.keyId # ""

\* C6: over encode / decode cycles, created is what the first encode wrote
\* (that encode's time when the caller gave none, else what the caller gave)
\* and stays so after every later encode, and decode; modified is the time of
\* the latest encode.
TimestampLifecycle ==
    /\ origin = "encoded" =>
          /\ WrittenHeader.created =
                (IF born.given = "" THEN RFC3339(born.at) ELSE born.given)
          /\ WrittenHeader.modified = RFC3339(encAt)
    /\ (origin = "encoded" /\ Decoded) =>
          /\ result.file.header.created =
                (IF born.given = "" THEN RFC3339(born.at) ELSE born.given)
          /\ result.file.header.modified = RFC3339(encAt)
TimestampLifecycleSeen ==
    /\ origin = "encoded" /\ Decoded
    /\ born.given = ""
    /\ encAt > born.at
    /\ encIn.header.modified = RFC3339(born.at)

\* C7 as stated: Search returns the nodes that have an embedding, by cosine
\* score descending, nodes of equal score in collection order, cut to the
\* first limit results when limit > 0; no node without an embedding; nothing
\* for an empty query.
Eligible == {k \in 1..Len(tree.nodes) : Len(tree.nodes[k].embedding) # 0}
ScoreOf(k) == cosineSimilarity(found.query, tree.nodes[k].embedding)
Same(s1, s2) == ~Greater(s1, s2) /\ ~Greater(s2, s1)
\* node k comes before node j in the stable ranking
Before(k, j) == Greater(ScoreOf(k), ScoreOf(j)) \/ (Same(ScoreOf(k), ScoreOf(j)) /\ k < j)
Wanted ==
    IF found.limit > 0 /\ Cardinality(Eligible) > found.limit
    THEN found.limit ELSE Cardinality(Eligible)
Exhausted(r) == r.index >= r.count \/ r.pos > Len(r.src)
IsPrefix(p, q) == Len(p) <= Len(q) /\ SubSeq(q, 1, Len(p)) = p
StreamingStop ==
    [][NextStep =>
        /\ Exhausted(sr) => sr'.last = "done" /\ sr'.yielded = sr.yielded /\ Exhausted(sr')
        /\ sr'.last = "node" =>
              /\ sr'.yielded = Append(sr.yielded, sr'.node)
              /\ sr'.pos > sr.pos
        /\ sr'.last # "node" => sr'.yielded = sr.yielded
        /\ Len(sr'.yielded) <= sr'.Header.nodeCount
        /\ sr.clean => IsPrefix(sr'.yielded, encIn.nodes)
    ]_vars
StreamingStopSeen ==
    /\ sr.open /\ sr.last = "done"
    /\ sr.Header.nodeCount > 0
    /\ Len(sr.yielded) = sr.Header.nodeCount
    /\ sr.pos <= Len(sr.src)

\* C9: once a Next call has failed to decode a record (it returned an error
\* and no record), no later Next call on the reader returns a record.
StreamFailureTerminal == ~(sr.failed /\ sr.last = "node")

\* C10: VerifyIntegrity answers (true, nil) exactly when reading and decoding
\* the file succeeds, (false, nil) exactly when Decode fails with
\* ErrIntegrityFailed, and (false, err) with the error of every other
\* failure; a file whose stored digest is empty never gets (false, nil).
Verified == verdict.err # "not called"
VerifyMapping ==
    Verified =>
        LET d == Decode(data)
        IN  /\ (verdict.valid /\ verdict.err = ErrNone) <=> (onDisk /\ d.err = ErrNone)
            /\ (~verdict.valid /\ verdict.err = ErrNone)
                  <=> (onDisk /\ d.err = ErrIntegrityFailed)
            /\ ~onDisk => verdict = [valid |-> FALSE, err |-> ErrReadFile]
            /\ (onDisk /\ d.err \in {ErrInvalidMagic, ErrDecodeHeader, ErrDecodeNodes})
                  => verdict = [valid |-> FALSE, err |-> d.err]
            /\ (onDisk /\ HeaderRead /\ WrittenHeader.security.integrity = "")
                  => ~(~verdict.valid /\ verdict.err = ErrNone)
VerifyMappingSeen ==
    /\ Verified /\ onDisk /\ origin = "altered"
    /\ HeaderRead /\ WrittenHeader.security.integrity = ""
    /\ verdict = [valid |-> FALSE, err |-> ErrDecodeNodes]

\* the positions of the nodes that list the tag at least once
Carrying(tag) == {k \in 1..Len(tree.nodes) : tag \in Range(tree.nodes[k].tags)}
\* how often a sequence holds a value
Times(seq, x) == Cardinality({j \in 1..Len(seq) : seq[j] = x})
AllTags == UNION {Range(tree.nodes[k].tags) : k \in 1..Len(tree.nodes)}

\* C11 as stated: GetByTag(t) is the nodes carrying t, each of them once, in
\* the order of the collection, and GetTags() is the distinct tags of the
\* collection in lexicographic order with no repeats.
TagIndexOnce ==
    /\ answer.op = "GetByTag" => answer.refs = Ascending(Carrying(answer.arg))
    /\ answer.op = "GetTags" =>
          /\ Range(answer.tags) = AllTags
          /\ \A i, j \in 1..Len(answer.tags) :
                i < j => StringLess(answer.tags[i], answer.tags[j])

\* C11: GetByTag(t) holds the nodes carrying t and no others, in the order
\* of the collection, each as many times as its tags list names t, and
\* GetTags() is the distinct tags of the collection in lexicographic order
\* with no repeats.
TagIndex ==
    /\ answer.op = "GetByTag" =>
          /\ Range(answer.refs) = Carrying(answer.arg)
          /\ \A i, j \in 1..Len(answer.refs) : i < j => answer.refs[i] <= answer.refs[j]
          /\ \A k \in 1..Len(tree.nodes) :
                Times(answer.refs, k) = Times(tree.nodes[k].tags, answer.arg)
    /\ answer.op = "GetTags" =>
          /\ Range(answer.tags) = AllTags
          /\ \A i, j \in 1..Len(answer.tags) :
                i < j => StringLess(answer.tags[i], answer.tags[j])

\* a tag that one node lists twice and another node lists too was asked for
TagIndexSeen ==
    /\ answer.op = "GetByTag"
    /\ \E k \in 1..Len(tree.nodes) : Times(tree.nodes[k].tags, answer.arg) = 2
    /\ Cardinality(Carrying(answer.arg)) >= 2

\* the stored digest is a hexadecimal rendering, in lower or in upper case,
\* of the SHA-256 of the payload bytes
SameHexAnyCase ==
    WrittenHeader.security.integrity
        \in {EncodeToString(Sum256(PayloadRead)), UpperHex(Sum256(PayloadRead))}

\* C12: when the stored header.security.integrity is a hexadecimal rendering
\* of the SHA-256 of the payload bytes in any letter case, upper case
\* included, Decode passes the integrity check and does not fail with
\* IntegrityFailed.
DigestAnyCase ==
    (Decoded /\ HeaderRead /\ SameHexAnyCase) => result.err # ErrIntegrityFailed

NodeIds == {tree.nodes[k].id : k \in 1..Len(tree.nodes)}
ChildrenOf(id) == {k \in 1..Len(tree.nodes) : tree.nodes[k].parentId = id}

\* C13: the index holds no children entry for a parentId that no node of the
\* collection has as its id, and GetChildren of such an id yields no nodes;
\* for an id that is a node's id, GetChildren(id) is the nodes whose parentId
\* equals it, in the order of the collection; GetRoots() is the nodes with
\* empty parentId, in the order of the collection.
DanglingParents ==
    /\ DOMAIN tree.children \subseteq NodeIds
    /\ answer.op = "GetChildren" =>
          IF answer.arg \in NodeIds
          THEN answer.refs = Ascending(ChildrenOf(answer.arg))
          ELSE answer.refs = <<>>
    /\ answer.op = "GetRoots" => answer.refs = Ascending(ChildrenOf(""))

====
